---- MODULE Spec2Model ----
(***************************************************************************)
(* The reader page of AniReads (a React client component) as a state       *)
(* machine.  Two variants of the page exist in the repository: the plain   *)
(* reader (src/unnamed/part_000, variant "v0") and the debug-instrumented  *)
(* reader (src/unnamed/part_001, variant "v1").                            *)
(*                                                                         *)
(* React semantics that the model keeps:                                   *)
(*  - a piece of code between two awaits is one step; its state updates    *)
(*    are committed together and the effects whose dependency lists        *)
(*    changed run right after the commit, in declaration order (main data  *)
(*    fetching effect, then the preload effect);                           *)
(*  - an async function started by an effect keeps the callbacks of the    *)
(*    render that started it (its closure), whatever is rendered later;    *)
(*  - a memoised callback is re-created only when one of its listed        *)
(*    dependencies changes;                                                *)
(*  - objects and arrays that come from a fetch, from JSON.parse or from   *)
(*    a literal are new identities, so setting one always counts as a      *)
(*    change of the state that holds it;                                   *)
(*  - the component instance survives a router.push to the same route.     *)
(*                                                                         *)
(* A behaviour follows at most `budget` starts of fetchReaderData: a step  *)
(* that would start one more is not taken, so every state reached is a     *)
(* state of the program.                                                   *)
(***************************************************************************)
EXTENDS Integers, Sequences, FiniteSets, Bags, TLC

\* ----- bounds of the model ------------------------------------------------
MaxRuns == 5
MaxPush == 1
MaxPageParam == 1
MaxDownloads == 2
MaxChapters == 3

\* ----- program constants --------------------------------------------------
Retries == 3
LookAhead == 3

None == "none"
Loading == "loading"
Placeholder == "/placeholder.svg"

\* ----- the remote catalogue (the chapter/page provider's data) -------------
Mangas == {"m1", "m2", "m3"}
Modes == {"single", "double", "vertical", "webtoon"}

\* a chapter record of the provider: attributes.volume and attributes.chapter are
\* a string or null, written <<n>> and <<>>
Chapter(id, volume, chapter) == [id |-> id, volume |-> volume, chapter |-> chapter]

\* Number.parseFloat(x || "0")
ParseFloatOr0(x) == IF x = <<>> THEN 0 ELSE x[1]

CompareByChapterOnly(a, b) == ParseFloatOr0(a.chapter) - ParseFloatOr0(b.chapter)

\* the comparator of both sorts: if (aVol !== bVol) return aVol - bVol; return aNum - bNum
Compare(a, b) ==
  LET aNum == ParseFloatOr0(a.chapter)
      bNum == ParseFloatOr0(b.chapter)
      aVol == ParseFloatOr0(a.volume)
      bVol == ParseFloatOr0(b.volume)
  IN IF aVol # bVol THEN aVol - bVol ELSE aNum - bNum

\* Array.prototype.sort is stable: an element goes behind every element of the
\* sorted part that the comparator does not put after it
Insert(sorted, x) ==
  LET k == Cardinality({i \in 1..Len(sorted) : Compare(sorted[i], x) <= 0})
  IN SubSeq(sorted, 1, k) \o <<x>> \o SubSeq(sorted, k + 1, Len(sorted))

RECURSIVE SortChapters(_)
\* (data || []).sort(comparator)
SortChapters(data) ==
  IF data = <<>> THEN <<>>
  ELSE Insert(SortChapters(SubSeq(data, 1, Len(data) - 1)), data[Len(data)])

\* getMangaDxChapters(id).data, in the order the provider sends it
ChaptersData(m) ==
  IF m = "m1" THEN <<Chapter("c2", <<1>>, <<2>>), Chapter("c1", <<1>>, <<1>>)>>
  ELSE IF m = "m2" THEN <<Chapter("d1", <<>>, <<1>>), Chapter("d2", <<>>, <<2>>)>>
  ELSE IF m = "m3" THEN <<Chapter("e1", <<>>, <<1>>)>>
  ELSE <<>>

\* /manga/{id}/feed?limit=1&order[chapter]=asc: data.results[0].data.id, None when
\* results is empty
FirstChapterId(m) ==
  LET data == ChaptersData(m)
      first == CHOOSE i \in 1..Len(data) : \A j \in 1..Len(data) :
                 ParseFloatOr0(data[i].chapter) <= ParseFloatOr0(data[j].chapter)
  IN IF data = <<>> THEN None ELSE data[first].id

\* getMangaDxChapters + sort: the ordered chapter list of a manga
Catalog(m) ==
  LET sortedChapters == SortChapters(ChaptersData(m))
  IN [i \in 1..Len(sortedChapters) |-> sortedChapters[i].id]

\* getMangaDxChapterPages + map: `${baseUrl}/data/${hash}/${page}` per page
PageUrls(c) ==
  IF c = "c1" THEN <<"c1/1.png", "c1/2.png">>
  ELSE IF c = "c2" THEN <<"c2/1.png", "c2/2.png">>
  ELSE IF c = "d1" THEN <<"d1/1.png">>
  ELSE IF c = "d2" THEN <<"d2/1.png">>
  ELSE IF c = "e1" THEN <<"e1/1.png", "e1/2.png", "e1/3.png">>
  ELSE <<>>

PageIdx == 0..2

\* getPrimaryEnglishTitle(getMangaDxManga(id).data)
TitleOf(m) == m

\* slugToMangaDxId: the canonical id of a slug, None when there is no match
SlugToMangaDxIdAny(slug) == "m1"
SlugToMangaDxId(slug) == IF slug \in Mangas THEN slug ELSE None

Min(a, b) == IF a < b THEN a ELSE b
Max(a, b) == IF a > b THEN a ELSE b

VARIABLES
  variant,                \* "v0" = part_000, "v1" = part_001
  kitsuData,              \* does the supplementary metadata search return a match
  budget,                 \* how many fetchReaderData starts this run of the model follows
  addr,                   \* the route the component is rendered for (useParams/useSearchParams)
  shownUrl,               \* the address bar (window.history.replaceState / router.push)
  pushLog,                \* the router.push / router.replace calls made, in order, each with its caller
  store,                  \* localStorage manga_downloads
  readingHistory,         \* localStorage readingHistory
  loading, error, mangaDxId, mangaTitle, imageUrls, currentPage, totalPages,
  readingMode, isOffline, kitsuManga, currentMangaDxChapter, allMangaDxChapters,
  redirecting,            \* v1: useState(false), true while the first chapter is looked up
  loadedImages,           \* useState Map<number,string>
  loadingStates,          \* useRef Set<number>
  loaders,                \* the loadImageWithRetry calls in flight
  runs,                   \* the fetchReaderData calls in flight
  started,                \* how many times fetchReaderData was started
  navChapters,            \* allMangaDxChapters as captured by the memoised nextPage/prevPage
  clock,                  \* new Date(): the stamp of the latest download written
  listJobs,               \* ChapterList.handleDownloadChapter calls waiting for their fetch
  autoPlay,               \* useState(false)
  autoPlayTimeout,        \* useState(3), seconds
  autoPlayTimer,          \* the pending timers, each as what its nextPage() holds
  chaptersData,           \* manga page: the getMangaDxChapters response fetchMangaDetails awaits
  detailChapters          \* manga page: the state `chapters`, useState<Chapter[]>([])

react == <<loading, error, mangaDxId, mangaTitle, imageUrls, currentPage, totalPages,
           readingMode, isOffline, kitsuManga, currentMangaDxChapter, allMangaDxChapters,
           redirecting>>
\* what no step of the reader's effects and page handlers changes
env == <<variant, kitsuData, budget, clock, listJobs, autoPlay, autoPlayTimeout,
         chaptersData, detailChapters>>
vars == <<env, addr, shownUrl, pushLog, store, readingHistory,
          react, loadedImages, loadingStates, loaders, runs, started, navChapters,
          autoPlayTimer>>

\* ----- the address ---------------------------------------------------------
\* pageParam is either a number (pageNum >= 0) or some other text (pageId)
IsPageNumber(a) == a.pageNum >= 0
InitialPage(a) == IF IsPageNumber(a) THEN a.pageNum ELSE 1
ChapterIdFromUrl(a) == IF ~IsPageNumber(a) THEN a.pageId ELSE a.chapter
LegacyChapterId(a) ==
  IF a.chapter # None THEN a.chapter
  ELSE IF ~IsPageNumber(a) /\ a.pageId # None THEN a.pageId ELSE None
ChapterOf(v, a) == IF v = "v0" THEN ChapterIdFromUrl(a) ELSE LegacyChapterId(a)
Address(slug, page, chapter) ==
  [slug |-> slug, pageNum |-> page, pageId |-> None, chapter |-> chapter]

\* ----- React state as a record ---------------------------------------------
Cur ==
  [loading |-> loading, error |-> error, mangaDxId |-> mangaDxId, mangaTitle |-> mangaTitle,
   imageUrls |-> imageUrls, currentPage |-> currentPage, totalPages |-> totalPages,
   readingMode |-> readingMode, isOffline |-> isOffline, kitsuManga |-> kitsuManga,
   currentMangaDxChapter |-> currentMangaDxChapter,
   allMangaDxChapters |-> allMangaDxChapters, redirecting |-> redirecting]

\* the manga id the callbacks see: state in v0, the route parameter in v1
MidOf(v, n, a) == IF v = "v0" THEN n.mangaDxId ELSE a.slug

EmptyMap == [i \in PageIdx |-> None]
NoProgress == [chapterId |-> None, page |-> -1, totalPages |-> -1]

\* ----- pure helpers ----------------------------------------------------------
HasNever(ls, pageIndex) == FALSE

\* loadingStates.current.has(pageIndex)
Has(ls, pageIndex) == pageIndex \in ls

\* downloads.find(d => d.mangaId === mangaDxId || (chapter && d.chapterId === chapter)):
\* the position of the first match in storage order, 0 when there is none
FindOffline(downloads, mid, chap) ==
  LET hits == {i \in 1..Len(downloads) :
                 \/ downloads[i].mangaId = mid
                 \/ (chap # None /\ downloads[i].chapterId = chap)}
  IN IF hits = {} THEN 0 ELSE CHOOSE i \in hits : \A j \in hits : i <= j

\* allMangaDxChapters.findIndex(c => c.id === id), 0 for -1 (positions are 1-based here)
FindIndex(chapters, id) ==
  LET hits == {i \in 1..Len(chapters) : chapters[i] = id}
  IN IF hits = {} THEN 0 ELSE CHOOSE i \in hits : \A j \in hits : i <= j

\* "Determine which chapter to load"
ChapterToLoad(chap, sortedChapters) ==
  IF chap # None
  THEN (IF FindIndex(sortedChapters, chap) > 0 THEN chap ELSE None)
  ELSE (IF Len(sortedChapters) > 0 THEN sortedChapters[1] ELSE None)

\* Math.min(initialPage, pages.length)
ValidInitialPage(initialPage, n) == Min(initialPage, n)

IncrementOne(mode) == 1

\* const increment = readingMode === "double" ? 2 : 1
Increment(mode) == IF mode = "double" THEN 2 ELSE 1

NextTargetUnclamped(cp, tp, mode) == cp + Increment(mode)

\* const newPage = Math.min(currentPage + increment, totalPages)
NextTarget(cp, tp, mode) == Min(cp + Increment(mode), tp)

PrevTargetUnclamped(cp, mode) == cp - Increment(mode)

\* const newPage = Math.max(currentPage - decrement, 1)
PrevTarget(cp, mode) == Max(cp - Increment(mode), 1)

\* the preload effect's pagesToLoad (0-based indices)
PagesToLoad(cp, tp, mode) ==
  {cp - 1}
  \cup (IF mode = "double" /\ cp < tp THEN {cp} ELSE {})
  \cup {cp + i - 1 : i \in {j \in 1..LookAhead : cp + j <= tp}}

\* ... of which those with a url that are not yet in loadingStates are started
ToStart(ls, urls, cp, tp, mode) ==
  {i \in PagesToLoad(cp, tp, mode) : i >= 0 /\ i < Len(urls) /\ ~Has(ls, i)}

NewLoader(pageIndex, url) ==
  [idx |-> pageIndex, url |-> url, i |-> 0, ph |-> "img", tries |-> 1, waits |-> 0]

\* the state updates of checkOfflineContent when a record is found
OfflineHit(n, rec, initialPage) ==
  [n EXCEPT !.isOffline = TRUE,
            !.imageUrls = rec.pages,
            !.totalPages = Len(rec.pages),
            !.mangaTitle = rec.mangaTitle,
            !.currentMangaDxChapter = rec.chapterId,
            !.currentPage = ValidInitialPage(initialPage, Len(rec.pages)),
            !.loading = FALSE]

\* updateURL(page) of a render with chapter `chap`, route slug `slug`
UpdateURL(v, url, slug, chap, page) ==
  IF v = "v0"
  THEN (IF chap = None THEN url ELSE Address(slug, page, chap))
  ELSE Address(slug, page, None)

SaveReadingProgressNever(v, hist, mid, chap, tp, page) == hist

\* saveReadingProgress(page) of a render with manga id `mid`, chapter `chap`, totalPages `tp`
SaveReadingProgress(v, hist, mid, chap, tp, page) ==
  IF v = "v0" /\ mid = None THEN hist
  ELSE [hist EXCEPT ![mid] = [chapterId |-> chap, page |-> page, totalPages |-> tp]]

\* ----- dependency lists --------------------------------------------------------
\* main data fetching effect: [mangaSlugParam, chapterIdFromUrl, initialPage,
\*   saveReadingProgress, checkOfflineContent, updateURL]; v1 adds redirecting
MainDepsChanged(n, a, chapNew, kitsuNew) ==
  \/ n.redirecting # redirecting
  \/ a.slug # addr.slug
  \/ ChapterOf(variant, a) # ChapterOf(variant, addr)
  \/ InitialPage(a) # InitialPage(addr)
  \/ (variant = "v0" /\ n.mangaDxId # mangaDxId)
  \/ n.mangaTitle # mangaTitle
  \/ n.totalPages # totalPages
  \/ chapNew \/ n.currentMangaDxChapter # currentMangaDxChapter
  \/ kitsuNew \/ n.kitsuManga # kitsuManga

\* nextPage / prevPage: [currentPage, totalPages, readingMode, updateURL, saveReadingProgress]
NavDepsChanged(n, a, chapNew, kitsuNew) ==
  \/ a.slug # addr.slug
  \/ (variant = "v0" /\ n.mangaDxId # mangaDxId)
  \/ n.mangaTitle # mangaTitle
  \/ n.totalPages # totalPages
  \/ chapNew \/ n.currentMangaDxChapter # currentMangaDxChapter
  \/ kitsuNew \/ n.kitsuManga # kitsuManga
  \/ n.currentPage # currentPage
  \/ n.readingMode # readingMode

\* preload effect: [currentPage, imageUrls, totalPages, readingMode, loadImageWithRetry]
PreloadDepsChanged(n, urlsNew) ==
  \/ urlsNew
  \/ n.currentPage # currentPage
  \/ n.totalPages # totalPages
  \/ n.readingMode # readingMode

\* the fetchReaderData call an effect run starts, with the callbacks of that render
NewRun(n, a) ==
  [pc |-> IF variant = "v0" THEN "slug" ELSE "off",
   slug |-> a.slug, chap |-> ChapterOf(variant, a), page |-> InitialPage(a),
   cMid |-> MidOf(variant, n, a), cChap |-> n.currentMangaDxChapter,
   cTotal |-> n.totalPages]

\* v1, redirect effect: if (mangaDxId && isPageNumber && !legacyChapterId)
NeedsRedirect(v, a) == v = "v1" /\ a.slug # None /\ IsPageNumber(a) /\ LegacyChapterId(a) = None

\* the fetchAndRedirectToFirstChapter call of a render for route `a`, at its await
FirstCall(n, a) == [NewRun(n, a) EXCEPT !.pc = "first"]

\* auto-play effect: [autoPlay, currentPage, totalPages, autoPlayTimeout]
AutoDepsChanged(n) == n.currentPage # currentPage \/ n.totalPages # totalPages

\* what the nextPage of render `n` holds: the timer callback calls that nextPage
NextPageOf(n, a) ==
  [page |-> n.currentPage, total |-> n.totalPages, mode |-> n.readingMode,
   slug |-> a.slug, mid |-> MidOf(variant, n, a), chap |-> n.currentMangaDxChapter]

ScheduleAlways(on, n, a) == IF on THEN {NextPageOf(n, a)} ELSE {}

\* a run of the auto-play effect, after the cleanup of the previous one:
\* if (autoPlay && currentPage < totalPages) autoPlayTimer.current = setTimeout(...)
Schedule(on, n, a) ==
  IF on /\ n.currentPage < n.totalPages THEN {NextPageOf(n, a)} ELSE {}

SetReact(n) ==
  /\ loading' = n.loading
  /\ error' = n.error
  /\ mangaDxId' = n.mangaDxId
  /\ mangaTitle' = n.mangaTitle
  /\ imageUrls' = n.imageUrls
  /\ currentPage' = n.currentPage
  /\ totalPages' = n.totalPages
  /\ readingMode' = n.readingMode
  /\ isOffline' = n.isOffline
  /\ kitsuManga' = n.kitsuManga
  /\ currentMangaDxChapter' = n.currentMangaDxChapter
  /\ allMangaDxChapters' = n.allMangaDxChapters
  /\ redirecting' = n.redirecting

\* One commit: the state updates `n` of a step and the new route `a` are rendered,
\* then the effects whose dependencies changed run: the main effect starts
\* fetchReaderData unless the render is redirecting (setLoading(true),
\* loadingStates.current.clear(), setLoadedImages(new Map())), then the preload
\* effect starts the loads.
Commit(n, a, chapNew, kitsuNew, urlsNew, rs) ==
  LET spawn == MainDepsChanged(n, a, chapNew, kitsuNew) /\ ~n.redirecting
      n1 == IF spawn THEN [n EXCEPT !.loading = TRUE] ELSE n
      ls1 == IF spawn THEN {} ELSE loadingStates
      li1 == IF spawn THEN EmptyMap ELSE loadedImages
      todo == IF PreloadDepsChanged(n, urlsNew) /\ Len(n.imageUrls) > 0
              THEN ToStart(ls1, n.imageUrls, n.currentPage, n.totalPages, n.readingMode)
              ELSE {}
  IN /\ spawn => started < budget
     /\ started' = IF spawn THEN started + 1 ELSE started
     /\ runs' = IF spawn THEN rs (+) SetToBag({NewRun(n, a)}) ELSE rs
     /\ loadingStates' = ls1 \cup todo
     /\ loadedImages' = [i \in PageIdx |-> IF i \in todo THEN Loading ELSE li1[i]]
     /\ loaders' = loaders (+) SetToBag({NewLoader(i, n.imageUrls[i + 1]) : i \in todo})
     /\ navChapters' = IF NavDepsChanged(n, a, chapNew, kitsuNew)
                       THEN n.allMangaDxChapters ELSE navChapters
     /\ addr' = a
     /\ autoPlayTimer' = IF AutoDepsChanged(n) THEN Schedule(autoPlay, n, a)
                         ELSE autoPlayTimer
     /\ SetReact(n1)

\* the synchronous start of fetchReaderData of v1 runs before anything else happens
EffectPending == \E r \in BagToSet(runs) : r.pc = "off"
Idle == ~EffectPending

\* ----- fetchReaderData, one step per await ------------------------------------
others == <<env, shownUrl, pushLog, store, readingHistory>>
Drop(r) == runs (-) SetToBag({r})
Goto(r, pc) == Drop(r) (+) SetToBag({[r EXCEPT !.pc = pc]})
RunMid(r) == IF variant = "v0" THEN SlugToMangaDxId(r.slug) ELSE r.slug

\* v0: await slugToMangaDxId(...) returned; setMangaDxId; checkOfflineContent()
RunSlug(r) ==
  /\ r.pc = "slug"
  /\ LET rid == SlugToMangaDxId(r.slug)
         k == FindOffline(store, r.cMid, r.chap)
     IN IF rid = None
        THEN Commit([Cur EXCEPT !.error = "notfound", !.loading = FALSE],
                    addr, FALSE, FALSE, FALSE, Drop(r))
        ELSE IF k > 0
        THEN Commit(OfflineHit([Cur EXCEPT !.mangaDxId = rid], store[k], r.page),
                    addr, TRUE, FALSE, TRUE, Drop(r))
        ELSE Commit([Cur EXCEPT !.mangaDxId = rid],
                    addr, FALSE, FALSE, FALSE, Goto(r, "manga"))
  /\ UNCHANGED others

\* v1: the synchronous start of fetchReaderData: checkOfflineContent()
RunOff(r) ==
  /\ r.pc = "off"
  /\ LET k == FindOffline(store, r.cMid, r.chap)
     IN IF k > 0
        THEN Commit(OfflineHit(Cur, store[k], r.page), addr, TRUE, FALSE, TRUE, Drop(r))
        ELSE Commit(Cur, addr, FALSE, FALSE, FALSE, Goto(r, "manga"))
  /\ UNCHANGED others

\* v1: the feed has a first chapter; router.replace(`/reader/${firstChapterId}/1`).
\* The new route has a numeric page and no chapter id again, so the redirect effect
\* of the next render starts over: setRedirecting(true); setLoading(true);
\* setError(null); fetch.
RedirectReplace(r) ==
  /\ r.pc = "first"
  /\ FirstChapterId(r.slug) # None
  /\ Len(pushLog) < MaxPush
  /\ LET target == Address(FirstChapterId(r.slug), 1, None)
         n == IF NeedsRedirect(variant, target)
              THEN [Cur EXCEPT !.redirecting = TRUE, !.loading = TRUE, !.error = None]
              ELSE Cur
         again == IF NeedsRedirect(variant, target) /\ target.slug # addr.slug
                  THEN SetToBag({FirstCall(n, target)}) ELSE EmptyBag
     IN /\ pushLog' = Append(pushLog, [to |-> target, by |-> "redirect"])
        /\ shownUrl' = target
        /\ Commit(n, target, FALSE, FALSE, FALSE, Drop(r) (+) again)
  /\ UNCHANGED <<env, store, readingHistory>>

\* v1: the feed has no results; setError('No chapters found for this manga...');
\* setLoading(false); setRedirecting(false)
RedirectEmpty(r) ==
  /\ r.pc = "first"
  /\ FirstChapterId(r.slug) = None
  /\ Commit([Cur EXCEPT !.error = "nochapters", !.loading = FALSE, !.redirecting = FALSE],
            addr, FALSE, FALSE, FALSE, Drop(r))
  /\ UNCHANGED others

\* v1: fetch or res.json() threw; setError('Failed to fetch first chapter.');
\* setLoading(false); setRedirecting(false)
RedirectThrow(r) ==
  /\ r.pc = "first"
  /\ Commit([Cur EXCEPT !.error = "failed", !.loading = FALSE, !.redirecting = FALSE],
            addr, FALSE, FALSE, FALSE, Drop(r))
  /\ UNCHANGED others

\* await getMangaDxManga(...) returned; setMangaTitle
RunManga(r) ==
  /\ r.pc = "manga"
  /\ Commit([Cur EXCEPT !.mangaTitle = TitleOf(RunMid(r))],
            addr, FALSE, FALSE, FALSE, Goto(r, "kitsu"))
  /\ UNCHANGED others

\* await searchKitsuManga(...) returned; setKitsuManga(data[0] || null)
RunKitsu(r) ==
  /\ r.pc = "kitsu"
  /\ Commit([Cur EXCEPT !.kitsuManga = kitsuData],
            addr, FALSE, kitsuData, FALSE, Goto(r, "chapters"))
  /\ UNCHANGED others

\* await searchKitsuManga(...) threw: caught on the spot, nothing is set
RunKitsuThrow(r) ==
  /\ r.pc = "kitsu"
  /\ Commit(Cur, addr, FALSE, FALSE, FALSE, Goto(r, "chapters"))
  /\ UNCHANGED others

\* await getMangaDxChapters(...) returned; sort; setAllMangaDxChapters; chapterToLoad
RunChapters(r) ==
  /\ r.pc = "chapters"
  /\ LET sortedChapters == Catalog(RunMid(r))
         n == [Cur EXCEPT !.allMangaDxChapters = sortedChapters]
     IN IF ChapterToLoad(r.chap, sortedChapters) = None
        THEN Commit([n EXCEPT !.error = IF variant = "v0" THEN "nochapter" ELSE @,
                              !.loading = FALSE],
                    addr, FALSE, FALSE, FALSE, Drop(r))
        ELSE Commit(n, addr, FALSE, FALSE, FALSE, Goto(r, "chapter"))
  /\ UNCHANGED others

\* await getMangaDxChapter(...) returned; setCurrentMangaDxChapter
RunChapter(r) ==
  /\ r.pc = "chapter"
  /\ Commit([Cur EXCEPT !.currentMangaDxChapter =
                           ChapterToLoad(r.chap, Catalog(RunMid(r)))],
            addr, TRUE, FALSE, FALSE, Goto(r, "pages"))
  /\ UNCHANGED others

RunPagesClearingError(r) ==
  /\ r.pc = "pages"
  /\ LET rawPageUrls == PageUrls(ChapterToLoad(r.chap, Catalog(RunMid(r))))
     IN Commit([Cur EXCEPT !.imageUrls = rawPageUrls,
                           !.totalPages = Len(rawPageUrls),
                           !.error = None,
                           !.loading = FALSE],
               addr, FALSE, FALSE, TRUE, Drop(r))
  /\ UNCHANGED others

\* await getMangaDxChapterPages(...) returned with a full manifest
RunPages(r) ==
  /\ r.pc = "pages"
  /\ LET rawPageUrls == PageUrls(ChapterToLoad(r.chap, Catalog(RunMid(r))))
         validInitialPage == ValidInitialPage(r.page, Len(rawPageUrls))
     IN /\ Commit([Cur EXCEPT !.imageUrls = rawPageUrls,
                              !.totalPages = Len(rawPageUrls),
                              !.currentPage = validInitialPage,
                              !.loading = FALSE],
                  addr, FALSE, FALSE, TRUE, Drop(r))
        /\ shownUrl' = UpdateURL(variant, shownUrl, r.slug, r.cChap, validInitialPage)
        /\ readingHistory' = SaveReadingProgress(variant, readingHistory, r.cMid,
                                                 r.cChap, r.cTotal, validInitialPage)
  /\ UNCHANGED <<env, pushLog, store>>

RunPagesMissingAsError(r) ==
  /\ r.pc = "pages"
  /\ Commit([Cur EXCEPT !.error = "failed", !.imageUrls = <<>>, !.totalPages = 0,
                        !.loading = FALSE],
            addr, FALSE, FALSE, TRUE, Drop(r))
  /\ UNCHANGED others

\* ... or without chapter data, hash or file list
RunPagesMissing(r) ==
  /\ r.pc = "pages"
  /\ Commit([Cur EXCEPT !.imageUrls = <<>>, !.totalPages = 0, !.loading = FALSE],
            addr, FALSE, FALSE, TRUE, Drop(r))
  /\ UNCHANGED others

\* an awaited provider call threw: catch and finally
RunThrow(r) ==
  /\ r.pc \in {"slug", "manga", "chapters", "chapter", "pages"}
  /\ Commit([Cur EXCEPT !.error = IF variant = "v0" THEN "failed" ELSE @,
                        !.imageUrls = <<>>, !.totalPages = 0, !.loading = FALSE],
            addr, FALSE, FALSE, TRUE, Drop(r))
  /\ UNCHANGED others

\* await getMangaDxChapterPages(...) returned with a full manifest, and the
\* localStorage call of saveReadingProgress(validInitialPage) threw (quota, or a
\* readingHistory value JSON.parse rejects): the updates made so far, then catch
\* and finally. The plain reader's saveReadingProgress returns before any storage
\* call when the mangaDxId of its render is null.
RunPagesSaveThrow(r) ==
  /\ r.pc = "pages"
  /\ variant = "v0" => r.cMid # None
  /\ LET rawPageUrls == PageUrls(ChapterToLoad(r.chap, Catalog(RunMid(r))))
         validInitialPage == ValidInitialPage(r.page, Len(rawPageUrls))
     IN /\ Commit([Cur EXCEPT !.error = IF variant = "v0" THEN "failed" ELSE @,
                              !.imageUrls = <<>>,
                              !.totalPages = 0,
                              !.currentPage = validInitialPage,
                              !.loading = FALSE],
                  addr, FALSE, FALSE, TRUE, Drop(r))
        /\ shownUrl' = UpdateURL(variant, shownUrl, r.slug, r.cChap, validInitialPage)
  /\ UNCHANGED <<env, pushLog, store, readingHistory>>

\* checkOfflineContent() whose localStorage read threw: caught inside, returns false
OfflineReadThrow(r) ==
  /\ \/ r.pc = "slug" /\ SlugToMangaDxId(r.slug) # None
     \/ r.pc = "off"
  /\ Commit([Cur EXCEPT !.mangaDxId = IF variant = "v0" THEN SlugToMangaDxId(r.slug) ELSE @],
            addr, FALSE, FALSE, FALSE, Goto(r, "manga"))
  /\ UNCHANGED others

\* ----- loadImageWithRetry, one step per await -----------------------------------
NeedsDelayAlways(i, retries) == i < retries

\* if (i < retries - 1) await delay
NeedsDelay(i, retries) == i < retries - 1

rest == <<env, addr, shownUrl, pushLog, store, readingHistory, react, loadingStates,
          runs, started, navChapters, autoPlayTimer>>

\* img.onload
ImgLoad(l) ==
  /\ l.ph = "img"
  /\ loadedImages' = [loadedImages EXCEPT ![l.idx] = l.url]
  /\ loaders' = loaders (-) SetToBag({l})
  /\ UNCHANGED rest

\* img.onerror: wait and try again, or give up with the placeholder
ImgError(l) ==
  /\ l.ph = "img"
  /\ IF NeedsDelay(l.i, Retries)
     THEN /\ loaders' = (loaders (-) SetToBag({l}))
                        (+) SetToBag({[l EXCEPT !.ph = "delay", !.waits = @ + 1]})
          /\ UNCHANGED loadedImages
     ELSE IF l.i + 1 < Retries
     THEN /\ loaders' = (loaders (-) SetToBag({l}))
                        (+) SetToBag({[l EXCEPT !.i = @ + 1, !.tries = @ + 1]})
          /\ UNCHANGED loadedImages
     ELSE /\ loaders' = loaders (-) SetToBag({l})
          /\ loadedImages' = [loadedImages EXCEPT ![l.idx] = Placeholder]
  /\ UNCHANGED rest

\* the 1000 ms delay is over: next round of the loop
ImgDelay(l) ==
  /\ l.ph = "delay"
  /\ IF l.i + 1 < Retries
     THEN /\ loaders' = (loaders (-) SetToBag({l}))
                        (+) SetToBag({[l EXCEPT !.ph = "img", !.i = @ + 1, !.tries = @ + 1]})
          /\ UNCHANGED loadedImages
     ELSE /\ loaders' = loaders (-) SetToBag({l})
          /\ loadedImages' = [loadedImages EXCEPT ![l.idx] = Placeholder]
  /\ UNCHANGED rest

\* ----- the user's operations -------------------------------------------------------
\* the reader itself is rendered (none of the early returns is taken)
Displayed ==
  /\ ~loading
  /\ error = None
  /\ ~((~kitsuManga /\ ~isOffline) \/ Len(imageUrls) = 0)

\* router.push(`/reader/${slug}/1?chapter=${id}`)
Push(target, by) ==
  /\ Len(pushLog) < MaxPush
  /\ pushLog' = Append(pushLog, [to |-> target, by |-> by])
  /\ shownUrl' = target
  /\ Commit(Cur, target, FALSE, FALSE, FALSE, runs)
  /\ UNCHANGED <<env, store, readingHistory>>

GoToNextChapterNever(chapters, by) == UNCHANGED vars

\* goToNextChapter of a render whose chapter list is `chapters`
GoToNextChapter(chapters, by) ==
  LET currentIndex == FindIndex(chapters, currentMangaDxChapter)
  IN IF /\ currentMangaDxChapter # None
        /\ currentIndex # 0
        /\ currentIndex < Len(chapters)
     THEN Push(Address(addr.slug, 1, chapters[currentIndex + 1]), by)
     ELSE UNCHANGED vars

GoToPrevChapterNever(chapters, by) == UNCHANGED vars

\* goToPrevChapter of a render whose chapter list is `chapters`
GoToPrevChapter(chapters, by) ==
  LET currentIndex == FindIndex(chapters, currentMangaDxChapter)
  IN IF currentMangaDxChapter # None /\ currentIndex > 1
     THEN Push(Address(addr.slug, 1, chapters[currentIndex - 1]), by)
     ELSE UNCHANGED vars

\* setCurrentPage(newPage); updateURL(newPage); saveReadingProgress(newPage)
GoToPage(newPage) ==
  /\ Commit([Cur EXCEPT !.currentPage = newPage], addr, FALSE, FALSE, FALSE, runs)
  /\ shownUrl' = UpdateURL(variant, shownUrl, addr.slug, currentMangaDxChapter, newPage)
  /\ readingHistory' = SaveReadingProgress(variant, readingHistory, MidOf(variant, Cur, addr),
                                           currentMangaDxChapter, totalPages, newPage)
  /\ UNCHANGED <<env, pushLog, store>>

\* nextPage (key press or click): the keyboard listener is attached in every view
NextPage ==
  LET newPage == NextTarget(currentPage, totalPages, readingMode)
  IN IF newPage > currentPage THEN GoToPage(newPage)
     ELSE IF currentPage = totalPages THEN GoToNextChapter(navChapters, "nextPage")
     ELSE UNCHANGED vars

PrevPage ==
  LET newPage == PrevTarget(currentPage, readingMode)
  IN IF newPage < currentPage THEN GoToPage(newPage)
     ELSE IF currentPage = 1 THEN GoToPrevChapter(navChapters, "prevPage")
     ELSE UNCHANGED vars

\* the page slider (min 1, max totalPages, step 1)
JumpToPage(newPage) ==
  /\ Displayed
  /\ newPage \in 1..totalPages
  /\ newPage # currentPage
  /\ GoToPage(newPage)

GoToPageThrowRolledBack(newPage, thrower) ==
  /\ Commit([Cur EXCEPT !.error = "failed"], addr, FALSE, FALSE, FALSE, runs)
  /\ UNCHANGED <<env, pushLog, store, readingHistory, shownUrl>>

\* setCurrentPage(newPage), then updateURL(newPage) throws (history.replaceState),
\* or it returns and saveReadingProgress(newPage) throws (localStorage): the handler
\* ends there, the state update it queued is rendered. updateURL of the plain
\* reader returns before replaceState without a chapter, its saveReadingProgress
\* before localStorage without a manga id.
GoToPageThrow(newPage, thrower) ==
  /\ thrower \in {"updateURL", "saveReadingProgress"}
  /\ variant = "v0" =>
       IF thrower = "updateURL" THEN currentMangaDxChapter # None ELSE mangaDxId # None
  /\ Commit([Cur EXCEPT !.currentPage = newPage], addr, FALSE, FALSE, FALSE, runs)
  /\ shownUrl' = IF thrower = "updateURL" THEN shownUrl
                 ELSE UpdateURL(variant, shownUrl, addr.slug, currentMangaDxChapter, newPage)
  /\ UNCHANGED <<env, pushLog, store, readingHistory>>

NextPageThrow(thrower) ==
  LET newPage == NextTarget(currentPage, totalPages, readingMode)
  IN newPage > currentPage /\ GoToPageThrow(newPage, thrower)

PrevPageThrow(thrower) ==
  LET newPage == PrevTarget(currentPage, readingMode)
  IN newPage < currentPage /\ GoToPageThrow(newPage, thrower)

JumpToPageThrow(newPage, thrower) ==
  /\ Displayed
  /\ newPage \in 1..totalPages
  /\ newPage # currentPage
  /\ GoToPageThrow(newPage, thrower)

\* the next/previous chapter buttons, disabled when there is no neighbour
NextChapterButton ==
  /\ Displayed
  /\ currentMangaDxChapter # None
  /\ FindIndex(allMangaDxChapters, currentMangaDxChapter) < Len(allMangaDxChapters)
  /\ GoToNextChapter(allMangaDxChapters, "button")

PrevChapterButton ==
  /\ Displayed
  /\ currentMangaDxChapter # None
  /\ FindIndex(allMangaDxChapters, currentMangaDxChapter) > 1
  /\ GoToPrevChapter(allMangaDxChapters, "button")

\* the reading mode select of the settings panel
SetReadingModeRewind(mode) ==
  /\ Displayed
  /\ mode # readingMode
  /\ Commit([Cur EXCEPT !.readingMode = mode, !.currentPage = 1], addr, FALSE, FALSE, FALSE, runs)
  /\ UNCHANGED others

SetReadingMode(mode) ==
  /\ Displayed
  /\ mode # readingMode
  /\ Commit([Cur EXCEPT !.readingMode = mode], addr, FALSE, FALSE, FALSE, runs)
  /\ UNCHANGED others

\* ----- the manga page: fetchMangaDetails -------------------------------------------------
\* await getMangaDxChapters(mangaDxId) returned: sort, setChapters(sortedChapters)
FetchMangaDetails ==
  /\ chaptersData # <<>>
  /\ detailChapters' = SortChapters(chaptersData)
  /\ chaptersData' = <<>>
  /\ UNCHANGED <<variant, kitsuData, budget, clock, listJobs, autoPlay, autoPlayTimeout,
                 addr, shownUrl, pushLog, store, readingHistory, react, loadedImages,
                 loadingStates, loaders, runs, started, navChapters, autoPlayTimer>>

\* ----- auto-play ------------------------------------------------------------------------
Delays == {3, 5}
reading == <<variant, kitsuData, budget, clock, listJobs, addr, shownUrl, pushLog, store,
          readingHistory, react, loadedImages, loadingStates, loaders, runs, started,
          navChapters, chaptersData, detailChapters>>

\* the play/pause button: setAutoPlay(!autoPlay)
ToggleAutoPlay ==
  /\ Displayed
  /\ autoPlay' = ~autoPlay
  /\ autoPlayTimer' = Schedule(~autoPlay, Cur, addr)
  /\ UNCHANGED <<reading, autoPlayTimeout>>

\* the delay select, shown while auto-play is on: setAutoPlayTimeout(Number(value))
SetAutoPlayTimeout(d) ==
  /\ Displayed
  /\ autoPlay
  /\ d # autoPlayTimeout
  /\ autoPlayTimeout' = d
  /\ autoPlayTimer' = Schedule(autoPlay, Cur, addr)
  /\ UNCHANGED <<reading, autoPlay>>

\* the pending timer fires: nextPage() of the render that scheduled it
TimerFire ==
  \E c \in autoPlayTimer :
    LET newPage == NextTarget(c.page, c.total, c.mode)
    IN IF newPage > c.page
       THEN /\ Commit([Cur EXCEPT !.currentPage = newPage], addr, FALSE, FALSE, FALSE, runs)
            /\ shownUrl' = UpdateURL(variant, shownUrl, c.slug, c.chap, newPage)
            /\ readingHistory' = SaveReadingProgress(variant, readingHistory, c.mid, c.chap,
                                                     c.total, newPage)
            /\ UNCHANGED <<env, pushLog, store>>
       ELSE IF c.page = c.total THEN GoToNextChapter(navChapters, "autoPlay")
       ELSE UNCHANGED vars

\* ----- initial states -----------------------------------------------------------------
\* id: `${mangaId}-${chapterId}`
DownloadId(m, c) == m \o "-" \o c

\* a DownloadedChapter: the fields the readers use, and its stamp
DownloadData(m, c, title, pages, at) ==
  [id |-> DownloadId(m, c), mangaId |-> m, chapterId |-> c, pages |-> pages,
   mangaTitle |-> title, downloadedAt |-> at]

\* a record that an earlier visit has left in the store
OfflineRecord(m, c) == DownloadData(m, c, TitleOf(m), PageUrls(c), 0)

UpsertAppendOnly(downloads, d) == Append(downloads, d)

\* existingDownloads.filter(d => d.id !== downloadData.id); push(downloadData)
Upsert(downloads, d) ==
  Append(SelectSeq(downloads, LAMBDA x : x.id # d.id), d)

\* what a download leaves alone
session == <<variant, kitsuData, budget, addr, shownUrl, pushLog, readingHistory, react,
             loadedImages, loadingStates, loaders, runs, started, navChapters,
             autoPlay, autoPlayTimeout, autoPlayTimer, chaptersData, detailChapters>>

\* the reader's "Download Chapter" button: handleDownloadChapter has no await, so
\* setDownloading(true) and setDownloading(false) are one render without a change
ReaderDownload ==
  /\ Displayed
  /\ ~isOffline
  /\ currentMangaDxChapter # None
  /\ variant = "v0" => mangaDxId # None
  /\ clock < MaxDownloads
  /\ clock' = clock + 1
  /\ store' = Upsert(store, DownloadData(MidOf(variant, Cur, addr), currentMangaDxChapter,
                                         mangaTitle, imageUrls, clock'))
  /\ UNCHANGED <<session, listJobs>>

\* the manga page's chapter list (ChapterList of /manga/<slug>): a download is
\* asked for, handleDownloadChapter awaits the page manifest
ListDownloadClick(slug, c) ==
  /\ clock + BagCardinality(listJobs) < MaxDownloads
  /\ listJobs' = listJobs (+) SetToBag({[slug |-> slug, chapter |-> c]})
  /\ UNCHANGED <<session, store, clock>>

\* the manifest has arrived: build downloadData, upsert
ListDownloadDone(j) ==
  /\ clock' = clock + 1
  /\ store' = Upsert(store, DownloadData(j.slug, j.chapter, TitleOf(j.slug),
                                         PageUrls(j.chapter), clock'))
  /\ listJobs' = listJobs (-) SetToBag({j})
  /\ UNCHANGED session

\* the fetch threw, or the manifest has no chapter.data: toast.error, nothing written
ListDownloadFailed(j) ==
  /\ listJobs' = listJobs (-) SetToBag({j})
  /\ UNCHANGED <<session, store, clock>>

\* the reader is mounted for an address of A: initial state, then the mount effects
Mount(V, A, S, KD, B) ==
  /\ variant \in V
  /\ budget = B
  /\ kitsuData \in KD
  /\ addr \in A
  /\ shownUrl = addr
  /\ pushLog = <<>>
  /\ store \in S
  /\ readingHistory = [m \in Mangas |-> NoProgress]
  /\ loading = TRUE
  /\ error = None
  /\ mangaDxId = None
  /\ mangaTitle = ""
  /\ imageUrls = <<>>
  /\ currentPage = 1
  /\ totalPages = 0
  /\ readingMode = "single"
  /\ isOffline = FALSE
  /\ kitsuManga = FALSE
  /\ currentMangaDxChapter = None
  /\ allMangaDxChapters = <<>>
  /\ redirecting = NeedsRedirect(variant, addr)
  /\ loadedImages = EmptyMap
  /\ loadingStates = {}
  /\ loaders = EmptyBag
  /\ runs = SetToBag({NewRun(Cur, addr)}
                     \cup IF redirecting THEN {FirstCall(Cur, addr)} ELSE {})
  /\ started = 1
  /\ navChapters = <<>>
  /\ clock = 0
  /\ listJobs = EmptyBag
  /\ autoPlay = FALSE
  /\ autoPlayTimeout = 3
  /\ autoPlayTimer = {}

\* the manga page beside the reader has its chapter list, or is not open
NoDetails == chaptersData = <<>> /\ detailChapters = <<>>

\* the reader is opened, the manga page is not
InitWith(V, A, S, KD, B) == Mount(V, A, S, KD, B) /\ NoDetails

\* a step of a fetchReaderData call whose awaited call succeeded
Fetch ==
  \/ \E r \in BagToSet(runs) : Idle /\ RunSlug(r)
  \/ \E r \in BagToSet(runs) : RunOff(r)
  \/ \E r \in BagToSet(runs) : Idle /\ RunManga(r)
  \/ \E r \in BagToSet(runs) : Idle /\ RunKitsu(r)
  \/ \E r \in BagToSet(runs) : Idle /\ RunChapters(r)
  \/ \E r \in BagToSet(runs) : Idle /\ RunChapter(r)
  \/ \E r \in BagToSet(runs) : Idle /\ RunPages(r)

\* an image arrives
Load == \E l \in BagToSet(loaders) : Idle /\ ImgLoad(l)

\* the reader turns pages
Turn ==
  \/ Idle /\ NextPage
  \/ Idle /\ PrevPage
  \/ \E p \in PageIdx : Idle /\ JumpToPage(p + 1)

\* the reader uses the chapter buttons or the settings panel
Panel ==
  \/ Idle /\ NextChapterButton
  \/ Idle /\ PrevChapterButton
  \/ \E m \in Modes : Idle /\ SetReadingMode(m)

\* a page is turned and the address update or the progress write throws
Throwers == {"updateURL", "saveReadingProgress"}
TurnFault ==
  \/ \E t \in Throwers : Idle /\ NextPageThrow(t)
  \/ \E t \in Throwers : Idle /\ PrevPageThrow(t)
  \/ \E p \in PageIdx, t \in Throwers : Idle /\ JumpToPageThrow(p + 1, t)

\* the reading mode is changed
Mode == \E m \in Modes : Idle /\ SetReadingMode(m)

\* chapters are downloaded, from the reader or from the manga page's chapter list
Download ==
  \/ Idle /\ ReaderDownload
  \/ \E c \in {"d1", "d2"} : Idle /\ ListDownloadClick("m2", c)
  \/ \E j \in BagToSet(listJobs) : Idle /\ ListDownloadDone(j)
  \/ \E j \in BagToSet(listJobs) : Idle /\ ListDownloadFailed(j)

\* auto-play is switched, its delay is chosen, its timer fires
Auto ==
  \/ Idle /\ ToggleAutoPlay
  \/ \E d \in Delays : Idle /\ SetAutoPlayTimeout(d)
  \/ Idle /\ TimerFire

\* an image load fails
ImgFault ==
  \/ \E l \in BagToSet(loaders) : Idle /\ ImgError(l)
  \/ \E l \in BagToSet(loaders) : Idle /\ ImgDelay(l)

\* a provider call fails or returns an incomplete page manifest
NetFault ==
  \/ \E r \in BagToSet(runs) : Idle /\ RunKitsuThrow(r)
  \/ \E r \in BagToSet(runs) : Idle /\ RunPagesMissing(r)
  \/ \E r \in BagToSet(runs) : Idle /\ RunThrow(r)

\* a localStorage call of the reader throws
StoreFault ==
  \/ \E r \in BagToSet(runs) : Idle /\ RunPagesSaveThrow(r)
  \/ \E r \in BagToSet(runs) : OfflineReadThrow(r)

\* v1: the lookup of the first chapter returns or fails
Redirect ==
  \/ \E r \in BagToSet(runs) : Idle /\ RedirectReplace(r)
  \/ \E r \in BagToSet(runs) : Idle /\ RedirectEmpty(r)
  \/ \E r \in BagToSet(runs) : Idle /\ RedirectThrow(r)

\* ----- specifications ---------------------------------------------------------------
\* the plain reader opened on /reader/m1/<p>, chapter c1 of m1 is downloaded
OfflineSession(B) ==
  InitWith({"v0"}, {Address("m1", p, None) : p \in 0..MaxPageParam},
           {<<OfflineRecord("m1", "c1")>>}, {FALSE}, B)

\* the plain reader opened on /reader/m1/1?chapter=c2, chapter c1 of m1 is downloaded
MixedSession(B) ==
  InitWith({"v0"}, {Address("m1", 1, "c2")}, {<<OfflineRecord("m1", "c1")>>}, {FALSE}, B)

\* the debug reader opened on /reader/m2/1?chapter=d1, nothing is downloaded
DebugSession(B) ==
  InitWith({"v1"}, {Address("m2", 1, "d1")}, {<<>>}, {FALSE}, B)

\* Every call succeeds.
Init == OfflineSession(MaxRuns) \/ MixedSession(MaxRuns) \/ DebugSession(MaxRuns)
Next == Fetch \/ Load \/ Turn \/ Panel
Spec == Init /\ [][Next]_vars

\* the plain reader opened on /reader/m2/1, chapter d1 of m2 is downloaded
ShortSession(B) ==
  InitWith({"v0"}, {Address("m2", 1, None)}, {<<OfflineRecord("m2", "d1")>>}, {FALSE}, B)

\* Image loads may fail; the reader only waits for the page.
InitLoad == ShortSession(MaxRuns) \/ DebugSession(MaxRuns)
NextLoad == Fetch \/ Load \/ ImgFault
SpecLoad == InitLoad /\ [][NextLoad]_vars

\* the debug reader opened on /reader/m2/1?chapter=d1 with the metadata search
\* finding the manga; chapter c1 of m1 is downloaded
KitsuSession(B) ==
  InitWith({"v1"}, {Address("m2", 1, "d1")}, {<<OfflineRecord("m1", "c1")>>}, {TRUE}, B)

\* Chapters are downloaded, from the reader and from the manga page of m2 open
\* beside it, while the reader initialises.
InitStore == KitsuSession(MaxRuns + 2) \/ ShortSession(MaxRuns - 1)
NextStore == Fetch \/ Load \/ Download
SpecStore == InitStore /\ [][NextStore]_vars

\* the debug reader and the plain reader opened on /reader/m2/1?chapter=zz, and
\* the plain reader opened on /reader/zz/1?chapter=c1 while chapter c1 of m1 is
\* downloaded: no manga zz, no chapter zz
LostChapterSession(B) ==
  InitWith({"v0", "v1"}, {Address("m2", 1, "zz")}, {<<>>}, {FALSE}, B)
LostMangaSession(B) ==
  InitWith({"v0"}, {Address("zz", 1, "c1")}, {<<OfflineRecord("m1", "c1")>>}, {FALSE}, B)

\* Provider calls and localStorage calls may fail.
InitFault ==
  \/ DebugSession(MaxRuns)
  \/ LostChapterSession(MaxRuns)
  \/ LostMangaSession(MaxRuns)
  \/ ShortSession(MaxRuns)
  \/ KitsuSession(MaxRuns)
NextFault == Fetch \/ Load \/ NetFault \/ StoreFault
SpecFault == InitFault /\ [][NextFault]_vars

\* Auto-play runs while the reader initialises and the pages are turned.
InitAuto == MixedSession(MaxRuns) \/ DebugSession(MaxRuns)
NextAuto == Fetch \/ Load \/ Turn \/ Auto
SpecAuto == InitAuto /\ [][NextAuto]_vars

\* the debug reader opened on /reader/m1/1?chapter=c1, nothing is downloaded
LongDebugSession(B) ==
  InitWith({"v1"}, {Address("m1", 1, "c1")}, {<<>>}, {FALSE}, B)

\* Pages are turned in both readers; every call succeeds.
InitTurn == LongDebugSession(MaxRuns) \/ OfflineSession(MaxRuns - 1)
NextTurn == Fetch \/ Load \/ Turn
SpecTurn == InitTurn /\ [][NextTurn]_vars

\* the plain reader opened on /reader/m3/1, the three-page chapter e1 of m3 is
\* downloaded
WideSession(B) ==
  InitWith({"v0"}, {Address("m3", 1, None)}, {<<OfflineRecord("m3", "e1")>>}, {FALSE}, B)

\* Pages are turned and the reading mode is changed.
InitMode == WideSession(MaxRuns - 1) \/ DebugSession(MaxRuns - 1)
NextMode == Fetch \/ Load \/ Turn \/ Mode
SpecMode == InitMode /\ [][NextMode]_vars

\* Pages are turned while history.replaceState and localStorage may throw.
InitSlip == LongDebugSession(MaxRuns - 1) \/ WideSession(MaxRuns - 1)
NextSlip == Fetch \/ Load \/ Turn \/ TurnFault
SpecSlip == InitSlip /\ [][NextSlip]_vars

\* Provider calls may fail while pages are turned.
InitEnd == MixedSession(MaxRuns) \/ LostChapterSession(MaxRuns - 1)
NextEnd == Fetch \/ Load \/ Turn \/ NetFault
SpecEnd == InitEnd /\ [][NextEnd]_vars

\* Auto-play runs and nobody turns a page by hand; a timer that stays pending
\* fires in the end (setTimeout).
NextPlay == Fetch \/ Load \/ Auto
SpecPlay == InitAuto /\ [][NextPlay]_vars /\ WF_vars(Idle /\ TimerFire)

\* the debug reader opened on /reader/m2/1, nothing is downloaded
FirstChapterSession(B) ==
  InitWith({"v1"}, {Address("m2", 1, None)}, {<<>>}, {FALSE}, B)

\* The debug reader looks up the first chapter; the plain reader has no such step.
InitRedirect == FirstChapterSession(MaxRuns) \/ ShortSession(MaxRuns - 1)
NextRedirect == Fetch \/ Load \/ Redirect
SpecRedirect == InitRedirect /\ [][NextRedirect]_vars

\* the responses of getMangaDxChapters: up to MaxChapters records, the i-th with
\* id ChapterIds[i], volume and chapter missing or a number
ChapterIds == <<"k1", "k2", "k3", "k4">>
Volumes == {<<>>, <<0>>, <<1>>, <<2>>}
Numbers == {<<>>, <<0>>, <<1>>, <<3>>, <<5>>}
Response(n, f) == [i \in 1..n |-> Chapter(ChapterIds[i], f[i][1], f[i][2])]

\* The manga page receives a chapter list of the provider and sorts it.
InitSort ==
  /\ Mount({"v0"}, {Address("m1", 1, None)}, {<<>>}, {FALSE}, 1)
  /\ \E n \in 1..MaxChapters :
       \E f \in [1..n -> Volumes \X Numbers] : chaptersData = Response(n, f)
  /\ detailChapters = <<>>
NextSort == FetchMangaDetails
SpecSort == InitSort /\ [][NextSort]_vars

\* ----- properties ---------------------------------------------------------------------
Ready == ~loading /\ error = None
InRange == 1 <= currentPage /\ currentPage <= totalPages

\* the neighbours of the active chapter in the ordered chapter list, None without one
Successor ==
  LET k == FindIndex(allMangaDxChapters, currentMangaDxChapter)
  IN IF currentMangaDxChapter # None /\ k > 0 /\ k < Len(allMangaDxChapters)
     THEN allMangaDxChapters[k + 1] ELSE None
Predecessor ==
  LET k == FindIndex(allMangaDxChapters, currentMangaDxChapter)
  IN IF currentMangaDxChapter # None /\ k > 1
     THEN allMangaDxChapters[k - 1] ELSE None

\* the run of the model still follows a router.push and the effect run it causes
CanNavigate == Idle /\ Len(pushLog) < MaxPush /\ started < budget

\* how many loadImageWithRetry calls are in flight for page index i
LoadersFor(b, i) ==
  LET S == {l \in BagToSet(b) : l.idx = i}
  IN BagCardinality([l \in S |-> b[l]])

\* C1: from a state with 1 <= currentPage <= totalPages, a nextPage() or prevPage()
\* call, in whatever reading mode, leaves currentPage within [1, totalPages].
C1_NavKeepsPageInRange ==
  [][(InRange /\ (NextPage \/ PrevPage)) => InRange']_vars

\* a double-page reader opened on page 1 stands on the last page of its two pages
C1_Witness ==
  /\ Ready
  /\ readingMode = "double"
  /\ InitialPage(addr) = 1
  /\ pushLog = <<>>
  /\ currentPage = totalPages
  /\ totalPages >= 2
  /\ shownUrl.pageNum = currentPage

\* C2: in every Ready state 1 <= currentPage <= totalPages, whatever page number
\* the address carried and whichever path (offline, online) initialised the reader.
C2_PageInRangeWhenReady == Ready => InRange

\* C3: in Ready with currentPage = totalPages, nextPage() leaves currentPage as it
\* is, and when the active chapter has a successor in the chapter list it asks the
\* router for page 1 of that successor (and for nothing else).
C3_NextPageAtLastPage ==
  /\ [][(Ready /\ currentPage = totalPages /\ NextPage) =>
          /\ currentPage' = currentPage
          /\ Successor # None =>
               pushLog' = Append(pushLog, [to |-> Address(addr.slug, 1, Successor),
                                           by |-> "nextPage"])
          /\ Successor = None => pushLog' = pushLog]_vars
  /\ [](Ready /\ currentPage = totalPages /\ Successor # None /\ CanNavigate
          => ENABLED (NextPage /\ pushLog' # pushLog))

\* nextPage() on the last page of c1 has asked for c2
C3_Witness ==
  /\ pushLog = <<[to |-> Address("m1", 1, "c2"), by |-> "nextPage"]>>
  /\ addr = Address("m1", 1, "c2")
  /\ currentMangaDxChapter = "c1"
  /\ currentPage = totalPages
  /\ error = None
  /\ loading

\* C4: in Ready with currentPage = 1, prevPage() leaves currentPage as it is, and
\* when the active chapter has a predecessor in the chapter list it asks the router
\* for page 1 of that predecessor (and for nothing else).
C4_PrevPageAtFirstPage ==
  /\ [][(Ready /\ currentPage = 1 /\ PrevPage) =>
          /\ currentPage' = currentPage
          /\ Predecessor # None =>
               pushLog' = Append(pushLog, [to |-> Address(addr.slug, 1, Predecessor),
                                           by |-> "prevPage"])
          /\ Predecessor = None => pushLog' = pushLog]_vars
  /\ [](Ready /\ currentPage = 1 /\ Predecessor # None /\ CanNavigate
          => ENABLED (PrevPage /\ pushLog' # pushLog))

\* prevPage() on the first page of c2 has asked for c1
C4_Witness ==
  /\ pushLog = <<[to |-> Address("m1", 1, "c1"), by |-> "prevPage"]>>
  /\ addr = Address("m1", 1, "c1")
  /\ currentMangaDxChapter = "c2"
  /\ currentPage = 1
  /\ error = None
  /\ loading

\* a fetchReaderData call that was started for another chapter than the address shows
Stale(r) == r.slug # addr.slug \/ r.chap # ChapterOf(variant, addr)

\* the call r goes on after one of its awaits
Completion(r) ==
  \/ RunSlug(r)
  \/ RunOff(r)
  \/ RunManga(r)
  \/ RunKitsu(r)
  \/ RunChapters(r)
  \/ RunChapter(r)
  \/ RunPages(r)

\* C5: once the address has changed, no step of a fetchReaderData call started for
\* the former address changes the page set, totalPages, currentPage, the active
\* chapter or the title.
C5_StaleCompletionDiscarded ==
  [][\A r \in BagToSet(runs) :
       (Stale(r) /\ Completion(r)) =>
          UNCHANGED <<imageUrls, totalPages, currentPage, currentMangaDxChapter,
                      mangaTitle>>]_vars

\* C6: while the store holds a record of the manga a fetchReaderData call was
\* started for, that call waits for no answer of the remote chapter/page provider.
C6_OfflinePrecedence ==
  \A r \in BagToSet(runs) :
     (\E k \in 1..Len(store) : store[k].mangaId = RunMid(r))
        => r.pc \notin {"manga", "chapters", "chapter", "pages"}

\* C7: between two starts of fetchReaderData, a page index that is in loadingStates
\* stays there, gets no further loadImageWithRetry call, and its entry of
\* loadedImages is neither removed nor set back to "loading".
C7_SecondLoadIsNoOp ==
  [][started' = started =>
       \A i \in PageIdx :
          i \in loadingStates =>
             /\ i \in loadingStates'
             /\ LoadersFor(loaders', i) <= LoadersFor(loaders, i)
             /\ loadedImages'[i] # None
             /\ loadedImages'[i] = Loading => loadedImages[i] = Loading]_vars

\* the reader went from page 1 to page 2, whose image was loaded before: it is
\* still loaded and no call is in flight for it
C7_Witness ==
  /\ Ready
  /\ pushLog = <<>>
  /\ InitialPage(addr) = 1
  /\ currentPage = 2
  /\ 1 \in loadingStates
  /\ loadedImages[1] = imageUrls[2]
  /\ LoadersFor(loaders, 1) = 0

\* C8: at most one loadImageWithRetry call is in flight for any page index.
C8_OneLoopPerIndex == \A i \in PageIdx : LoadersFor(loaders, i) <= 1

\* C9: a loadImageWithRetry call makes at most 3 attempts and waits only between
\* attempts; it gives up, with the placeholder, after exactly 3 failed attempts and
\* 2 waits; an attempt that succeeds ends the call with the image's own url.
C9_ThreeAttempts ==
  [][\A l \in BagToSet(loaders) :
       /\ l.tries <= 3
       /\ l.waits = IF l.ph = "delay" THEN l.tries ELSE l.tries - 1
       /\ ((ImgError(l) \/ ImgDelay(l)) /\ BagCardinality(loaders') < BagCardinality(loaders))
             => /\ l.tries = 3
                /\ l.waits = 2
                /\ loadedImages'[l.idx] = Placeholder
       /\ ((ImgError(l) \/ ImgDelay(l)) /\ l.tries < 3)
             => BagCardinality(loaders') = BagCardinality(loaders)
       /\ ImgLoad(l)
             => /\ loadedImages'[l.idx] = l.url
                /\ BagCardinality(loaders') < BagCardinality(loaders)]_vars

\* a page has got the placeholder and no call is in flight for it any more
C9_Witness ==
  \E i \in PageIdx : loadedImages[i] = Placeholder /\ LoadersFor(loaders, i) = 0

\* NotStarted < Loading < Loaded, Failed
Rank(v) == IF v = None THEN 0 ELSE IF v = Loading THEN 1 ELSE 2

\* C10: the load state of a page index never moves back, and never changes between
\* Loaded and Failed.
C10_LoadStateMonotonic ==
  [][\A i \in PageIdx :
       /\ Rank(loadedImages'[i]) >= Rank(loadedImages[i])
       /\ Rank(loadedImages[i]) = 2 =>
            (loadedImages'[i] = Placeholder <=> loadedImages[i] = Placeholder)]_vars
\* the records of a downloads list stored under key k
RecordsWith(downloads, k) == {downloads[i] : i \in {j \in 1..Len(downloads) : downloads[j].id = k}}

\* the download that a step has written: the last record of the list
Written == store'[Len(store')]

\* C11: the downloads list never holds two records with the same key
\* mangaId-chapterId; a download leaves under its key exactly the record it has
\* just built, and leaves the records of every other key as they were.
C11_UpsertByKey ==
  /\ [](\A i, j \in 1..Len(store) :
          /\ store[i].id = DownloadId(store[i].mangaId, store[i].chapterId)
          /\ i # j => store[i].id # store[j].id)
  /\ [][store' # store =>
          /\ Len(store') > 0
          /\ Written.downloadedAt = clock'
          /\ clock' = clock + 1
          /\ RecordsWith(store', Written.id) = {Written}
          /\ \A i \in 1..Len(store) :
                store[i].id # Written.id => RecordsWith(store', store[i].id) = {store[i]}
          /\ Len(store') <= Len(store) + 1]_vars

\* chapter d1 of m2 was downloaded twice: only the second record is stored,
\* beside the record of m1
C11_Witness ==
  /\ Len(store) = 2
  /\ store[1] = OfflineRecord("m1", "c1")
  /\ store[2].id = DownloadId("m2", "d1")
  /\ store[2].downloadedAt = 2
\* the manga id the reader files its progress under
SessionMangaId == MidOf(variant, Cur, addr)

\* C12: a nextPage, prevPage or slider step that changes currentPage leaves in
\* readingHistory, under the session's manga id, a record whose page is the new
\* currentPage, and leaves the records of the other manga ids as they were.
C12_ProgressFollowsPage ==
  [][((NextPage \/ PrevPage \/ \E p \in PageIdx : JumpToPage(p + 1))
        /\ currentPage' # currentPage) =>
          /\ SessionMangaId \in Mangas
          /\ readingHistory'[SessionMangaId].page = currentPage'
          /\ \A m \in Mangas \ {SessionMangaId} :
                readingHistory'[m] = readingHistory[m]]_vars

\* the reader opened on page 1 has turned to page 2 and filed it
C12_Witness ==
  /\ InitialPage(addr) = 1
  /\ pushLog = <<>>
  /\ currentPage = 2
  /\ SessionMangaId = "m1"
  /\ readingHistory["m1"].page = 2
  /\ readingHistory["m2"] = NoProgress
\* the page list the provider holds for the chapter a fetchReaderData call loads
PagesOf(r) == PageUrls(ChapterToLoad(r.chap, Catalog(RunMid(r))))

\* C13: a localStorage call that throws never ends the session in the error state
\* and never costs it the loaded pages: after the failed progress write that ends
\* the initialization, error is as it was and imageUrls and totalPages hold the
\* chapter's pages; after a failed read of manga_downloads, error, imageUrls and
\* totalPages are as they were.
C13_StorageFailureKeepsSession ==
  [][\A r \in BagToSet(runs) :
       /\ RunPagesSaveThrow(r) =>
            error' = error /\ imageUrls' = PagesOf(r) /\ totalPages' = Len(PagesOf(r))
       /\ OfflineReadThrow(r) =>
            error' = error /\ imageUrls' = imageUrls /\ totalPages' = totalPages]_vars

\* C14: without a match of the metadata search, a reader that is Ready with a
\* non-empty page list downloaded from the provider presents the pages.
C14_PagesShownWithoutMetadata ==
  (Ready /\ ~kitsuManga /\ ~isOffline /\ Len(imageUrls) > 0) => Displayed

\* C15: a provider call of fetchReaderData that throws leaves the reader, plain or
\* debug, not loading and with an error message set.
C15_ProviderFailureSetsError ==
  [][\A r \in BagToSet(runs) : RunThrow(r) => error' # None]_vars

\* C16: after a failed fetch of the chapter list the reader is not in the error
\* state, the chapter list it holds is empty and the fetchReaderData call goes on.
C16_CatalogFailureDegrades ==
  [][\A r \in BagToSet(runs) :
       (r.pc = "chapters" /\ RunThrow(r)) =>
          /\ error' = None
          /\ allMangaDxChapters' = <<>>
          /\ \E q \in BagToSet(runs') : q.pc \in {"chapter", "pages"}]_vars
\* C17: when the resolver finds no manga for the slug, the fetchReaderData call
\* sets the not-found error, stops loading and ends there: no offline lookup (a
\* matching download is not taken), no manga id, and never a later step of a call
\* for such a slug.
C17_NotFoundEndsRun ==
  /\ [](\A r \in BagToSet(runs) : (variant = "v0" /\ r.slug \notin Mangas) => r.pc = "slug")
  /\ [][\A r \in BagToSet(runs) :
          (r.slug \notin Mangas /\ RunSlug(r)) =>
             /\ error' = "notfound"
             /\ ~loading'
             /\ runs' = Drop(r)
             /\ mangaDxId' = mangaDxId
             /\ isOffline' = isOffline
             /\ imageUrls' = imageUrls
             /\ allMangaDxChapters' = allMangaDxChapters
             /\ currentMangaDxChapter' = currentMangaDxChapter]_vars

\* the reader of /reader/zz/1?chapter=c1 has ended not found, with the download
\* of c1 untouched in the store
C17_Witness ==
  /\ addr.slug = "zz"
  /\ FindOffline(store, None, ChapterIdFromUrl(addr)) > 0
  /\ error = "notfound"
  /\ ~loading
  /\ ~isOffline
  /\ runs = EmptyBag

\* C18: when the address names a chapter id that the chapter list does not hold,
\* the step that receives the list sets the error state, in the plain and in the
\* debug reader, and fetches neither the chapter nor its pages.
C18_ChapterNotFoundIsError ==
  [][\A r \in BagToSet(runs) :
       (r.chap # None /\ FindIndex(Catalog(RunMid(r)), r.chap) = 0 /\ RunChapters(r)) =>
          /\ error' # None
          /\ runs' = Drop(r)]_vars

\* C19: a page-list response without chapter data, hash or file list ends the
\* fetchReaderData call with an empty imageUrls and totalPages = 0, sets no error,
\* and leaves the reader not loading unless the step restarted the main effect.
C19_MissingManifestIsEmptyReady ==
  [][\A r \in BagToSet(runs) :
       RunPagesMissing(r) =>
          /\ imageUrls' = <<>>
          /\ totalPages' = 0
          /\ error' = error
          /\ started' = started => (~loading' /\ runs' = Drop(r))]_vars

\* the plain reader, online, is Ready on a chapter with no page
C19_Witness ==
  /\ variant = "v0"
  /\ Ready
  /\ ~isOffline
  /\ mangaDxId # None
  /\ currentMangaDxChapter # None
  /\ imageUrls = <<>>
  /\ totalPages = 0
\* C20: a pending auto-play timer was scheduled in the session state the reader is
\* in: auto-play is on, and the nextPage() it will call holds the current page,
\* page count, manga id and active chapter.
C20_TimerHoldsCurrentState ==
  \A c \in autoPlayTimer :
     /\ autoPlay
     /\ c.page = currentPage
     /\ c.total = totalPages
     /\ c.mid = SessionMangaId
     /\ c.chap = currentMangaDxChapter
\* the sort key of the claim: (volume, chapter), a missing number counted as 0
KeyOf(c) ==
  <<IF c.volume = <<>> THEN 0 ELSE c.volume[1], IF c.chapter = <<>> THEN 0 ELSE c.chapter[1]>>
KeyBefore(a, b) == a[1] < b[1] \/ (a[1] = b[1] /\ a[2] < b[2])
PositionIn(data, c) == CHOOSE i \in 1..Len(data) : data[i] = c

\* C21: the chapter list the manga page holds after its sort is a permutation of
\* the provider's records, ascending by (volume, chapter) with a missing number
\* counted as 0, and records with equal pairs are in the provider's order.
C21_ChaptersSortedStably ==
  [][FetchMangaDetails =>
       /\ Len(detailChapters') = Len(chaptersData)
       /\ {detailChapters'[i] : i \in 1..Len(detailChapters')} = {chaptersData[i] : i \in 1..Len(chaptersData)}
       /\ \A i, j \in 1..Len(detailChapters') :
             i < j =>
               /\ ~KeyBefore(KeyOf(detailChapters'[j]), KeyOf(detailChapters'[i]))
               /\ KeyOf(detailChapters'[i]) = KeyOf(detailChapters'[j]) =>
                     PositionIn(chaptersData, detailChapters'[i]) < PositionIn(chaptersData, detailChapters'[j])]_vars

\* the list sent as (1,5), (1,3), (2,1) is held as (1,3), (1,5), (2,1)
C21_Witness ==
  detailChapters = <<Chapter("k2", <<1>>, <<3>>), Chapter("k1", <<1>>, <<5>>),
               Chapter("k3", <<2>>, <<1>>)>>
\* a step of nextPage, prevPage or the slider that changes currentPage
PageChange ==
  /\ NextPage \/ PrevPage \/ \E p \in PageIdx : JumpToPage(p + 1)
  /\ currentPage' # currentPage

\* C22: after a page change in a Ready reader the address shown names the manga,
\* the new page and the active chapter, as a reader opened on it would read them.
C22_AddressRoundTrip ==
  [][(Ready /\ PageChange) =>
       /\ shownUrl'.slug = addr.slug
       /\ InitialPage(shownUrl') = currentPage'
       /\ ChapterOf(variant, shownUrl') = currentMangaDxChapter']_vars
\* C23: in a Ready reader, and in a reader that serves a downloaded chapter, the
\* active chapter is an entry of the chapter list the reader holds (the only
\* entry, when no chapter list was fetched).
C23_ActiveChapterInList ==
  ((Ready \/ isOffline) /\ currentMangaDxChapter # None) =>
     FindIndex(allMangaDxChapters, currentMangaDxChapter) > 0
\* the step of the claim: 2 in double mode, 1 in the other modes
StepOfMode == IF readingMode = "double" THEN 2 ELSE 1

\* C24: in a Ready reader nextPage() below the last page sets currentPage to
\* min(currentPage + step, totalPages) and prevPage() above page 1 sets it to
\* max(currentPage - step, 1), with step 2 in double mode and 1 otherwise; both
\* can be taken there.
C24_StepByMode ==
  /\ [][(Ready /\ NextPage /\ currentPage < totalPages) =>
          currentPage' = Min(currentPage + StepOfMode, totalPages)]_vars
  /\ [][(Ready /\ PrevPage /\ currentPage > 1) =>
          currentPage' = Max(currentPage - StepOfMode, 1)]_vars
  /\ []((Ready /\ currentPage < totalPages) => ENABLED (NextPage /\ currentPage' > currentPage))
  /\ []((Ready /\ currentPage > 1) => ENABLED (PrevPage /\ currentPage' < currentPage))

\* a double-page reader of three pages stands on page 3 and has filed it
C24_Witness ==
  /\ Ready
  /\ readingMode = "double"
  /\ totalPages = 3
  /\ currentPage = 3
  /\ shownUrl = Address("m3", 3, "e1")
  /\ readingHistory["m3"].page = 3
\* the steps that call goToNextChapter() and goToPrevChapter(): the chapter
\* buttons, nextPage() on the last page and prevPage() on page 1
CallsGoToNextChapter ==
  \/ NextChapterButton
  \/ NextPage /\ NextTarget(currentPage, totalPages, readingMode) <= currentPage
              /\ currentPage = totalPages
CallsGoToPrevChapter ==
  \/ PrevChapterButton
  \/ PrevPage /\ PrevTarget(currentPage, readingMode) >= currentPage /\ currentPage = 1

\* one router.push to page 1 of chapter `neighbour`, or nothing at all without one
Navigated(neighbour) ==
  IF neighbour # None
  THEN \E by \in {"button", "nextPage", "prevPage"} :
         pushLog' = Append(pushLog, [to |-> Address(addr.slug, 1, neighbour), by |-> by])
  ELSE /\ pushLog' = pushLog
       /\ currentPage' = currentPage
       /\ imageUrls' = imageUrls
       /\ readingHistory' = readingHistory

\* C25: goToNextChapter() and goToPrevChapter() ask the router once for page 1 of
\* the neighbour of the active chapter in the chapter list when there is one, and
\* otherwise ask for nothing and leave currentPage, the pages and the progress.
C25_ChapterNavigation ==
  /\ [][(CallsGoToNextChapter => Navigated(Successor))
         /\ (CallsGoToPrevChapter => Navigated(Predecessor))]_vars
  /\ []((Displayed /\ Successor # None /\ CanNavigate)
           => ENABLED (NextChapterButton /\ pushLog' # pushLog))
  /\ []((Displayed /\ Predecessor # None /\ CanNavigate)
           => ENABLED (PrevChapterButton /\ pushLog' # pushLog))

\* the next-chapter button on c1 has asked for c2
C25_Witness ==
  /\ pushLog = <<[to |-> Address("m1", 1, "c2"), by |-> "button"]>>
  /\ addr = Address("m1", 1, "c2")
  /\ currentMangaDxChapter = "c1"
  /\ readingHistory["m1"] = NoProgress
\* the page indices a step starts a load for
Requested == {l.idx : l \in BagToSet(loaders' (-) loaders)}

\* the indices of the claim for the state after the step: the current page, its
\* partner in double mode, the three after it, all below totalPages ...
Wanted ==
  ({currentPage' - 1}
     \cup (IF readingMode' = "double" /\ currentPage' < totalPages' THEN {currentPage'} ELSE {})
     \cup (currentPage'..(currentPage' + 2)))
  \cap (0..(totalPages' - 1))

\* ... of which those are already Loading, Loaded or Failed
Known == {i \in PageIdx : loadedImages[i] # None}

\* C26: a step that changes currentPage or readingMode, with a non-empty page set
\* and without restarting the initialization, starts a load for exactly the wanted
\* indices that are not yet Loading, Loaded or Failed; no step ever starts a load
\* for an index outside 0..totalPages-1.
C26_PreloadWindow ==
  [][/\ ((currentPage' # currentPage \/ readingMode' # readingMode)
           /\ Len(imageUrls') > 0 /\ started' = started) =>
          Requested = Wanted \ Known
     /\ Requested \subseteq 0..(totalPages' - 1)]_vars
\* a page turn whose address update or progress write throws
ThrowingTurn ==
  \E t \in Throwers :
    \/ NextPageThrow(t)
    \/ PrevPageThrow(t)
    \/ \E p \in PageIdx : JumpToPageThrow(p + 1, t)

\* the page a turn of the claim aims at
TurnTargets ==
  {Min(currentPage + StepOfMode, totalPages), Max(currentPage - StepOfMode, 1)}
    \cup (1..totalPages)

\* C27: a page turn whose address update or progress write throws still moves
\* currentPage to its target and leaves the reader as able to turn pages as before:
\* not loading more, no error, the same pages; a reader that has pages left can
\* take nextPage() in every state.
C27_ThrowKeepsPageChange ==
  /\ [][ThrowingTurn =>
          /\ currentPage' # currentPage
          /\ currentPage' \in TurnTargets
          /\ error' = error
          /\ loading' = loading
          /\ imageUrls' = imageUrls
          /\ totalPages' = totalPages]_vars
  /\ [][\A t \in Throwers :
          /\ NextPageThrow(t) => currentPage' = Min(currentPage + StepOfMode, totalPages)
          /\ PrevPageThrow(t) => currentPage' = Max(currentPage - StepOfMode, 1)]_vars
  /\ []((currentPage < totalPages) => ENABLED (NextPage /\ currentPage' > currentPage))

\* page 2 is shown although its progress write threw: the address names page 2,
\* the progress record was never written
C27_Witness ==
  /\ Ready
  /\ currentPage = 2
  /\ shownUrl.pageNum = 2
  /\ SessionMangaId \in Mangas
  /\ readingHistory[SessionMangaId] = NoProgress

\* C28: setReadingMode(mode) sets the mode and leaves currentPage, totalPages, the
\* page list, the active chapter, the address (shown and routed) and the progress
\* record as they were, starts no initialization and no navigation; the preload
\* effect runs again for the new grouping: it starts loads only for indices of the
\* new window, and every index of the new window has been requested afterwards.
\* The select offers every other mode whenever the reader is displayed.
C28_ModeChangeOnlyRegroups ==
  /\ [][\A m \in Modes : SetReadingMode(m) =>
          /\ readingMode' = m
          /\ currentPage' = currentPage
          /\ totalPages' = totalPages
          /\ imageUrls' = imageUrls
          /\ currentMangaDxChapter' = currentMangaDxChapter
          /\ shownUrl' = shownUrl
          /\ addr' = addr
          /\ readingHistory' = readingHistory
          /\ pushLog' = pushLog
          /\ started' = started
          /\ Requested \subseteq Wanted
          /\ Wanted \subseteq loadingStates']_vars
  /\ [](Displayed => \A m \in Modes \ {readingMode} : ENABLED SetReadingMode(m))

\* the mode was changed away from single on page 2 of 3: double mode never turns
\* to page 2 from page 1 or 3
C28_Witness ==
  /\ Ready
  /\ readingMode = "double"
  /\ currentPage = 2
  /\ totalPages = 3
  /\ shownUrl.pageNum = 2

\* the stored records that satisfy the claim's condition for the call of run r:
\* mangaId is the session's manga id, or the address names a chapter and
\* chapterId is that chapter
Matching(r) ==
  {i \in 1..Len(store) :
     \/ store[i].mangaId = RunMid(r)
     \/ (r.chap # None /\ store[i].chapterId = r.chap)}

FirstOf(S) == CHOOSE i \in S : \A j \in S : i <= j

\* the step of run r that calls checkOfflineContent()
Lookup(r) == RunMid(r) # None /\ (RunSlug(r) \/ RunOff(r))

\* C29: the offline lookup of a run serves the first stored record, in storage
\* order, whose mangaId is the session's manga id or whose chapterId is the chapter
\* named by the address; when no record satisfies either condition nothing is
\* served and the run goes on to the provider; when the stored list cannot be read
\* nothing is served and no error is set.
C29_FirstMatchingRecord ==
  [][\A r \in BagToSet(runs) :
       /\ Lookup(r) =>
            IF Matching(r) = {}
            THEN /\ isOffline' = isOffline
                 /\ imageUrls' = imageUrls
                 /\ error' = error
            ELSE /\ isOffline'
                 /\ imageUrls' = store[FirstOf(Matching(r))].pages
                 /\ currentMangaDxChapter' = store[FirstOf(Matching(r))].chapterId
       /\ OfflineReadThrow(r) =>
            /\ isOffline' = isOffline
            /\ imageUrls' = imageUrls
            /\ error' = error]_vars

\* C30: outside Ready (while loading, or with an error set) a nextPage() or
\* prevPage() from a key press changes neither currentPage nor the address nor the
\* progress record and requests no chapter navigation.
C30_NavigationOnlyInReady ==
  [][(~Ready /\ (NextPage \/ PrevPage)) =>
       /\ currentPage' = currentPage
       /\ shownUrl' = shownUrl
       /\ readingHistory' = readingHistory
       /\ pushLog' = pushLog]_vars

\* C31: once error is set it stays set: no completion of a provider call, no
\* restarted initialization and no page turn clears it, so the reader never shows
\* the pages again (Ready) before a reload.
C31_TerminalIsFinal ==
  [][error # None => (error' # None /\ ~Ready')]_vars

\* the error view is shown although a later initialization has delivered the pages
C31_Witness ==
  /\ error # None
  /\ ~loading
  /\ Len(imageUrls) > 0
  /\ totalPages = Len(imageUrls)

\* the values the callbacks in the main effect's dependency list are made of
DepValues == <<mangaDxId, mangaTitle, currentMangaDxChapter, totalPages, kitsuManga>>

\* C32: with the address fixed and no user input, a step starts fetchReaderData
\* again only when it has changed one of the values the main effect depends on:
\* a step that writes back the values already there and still restarts the
\* initialization would be repeated by the run it starts, without end.
C32_InitializationTerminates ==
  [][(started' > started /\ addr' = addr) => DepValues' # DepValues]_vars

\* C33: in a Ready session only nextPage, prevPage and the page slider change
\* currentPage: no step of a fetchReaderData call moves it back to the initial
\* page of the address.
C33_OnlyNavigationMovesPage ==
  [][(Ready /\ currentPage' # currentPage) =>
       (NextPage \/ PrevPage \/ \E p \in PageIdx : JumpToPage(p + 1))]_vars

\* the stored records of the session's manga for the chapter the address names
NamedRecords(r) ==
  {i \in 1..Len(store) : store[i].mangaId = RunMid(r) /\ store[i].chapterId = r.chap}

C35_OfflineFlagTracksSource ==
  [][\A r \in BagToSet(runs) :
       /\ (RunPages(r) /\ Ready') => ~isOffline'
       /\ (Lookup(r) /\ imageUrls' # imageUrls) => isOffline']_vars

\* C36: a step that writes a progress record writes it under the session's manga
\* id, with the chapter id and the totalPages the session has with that step.
C36_ProgressAgreesWithSession ==
  [][\A m \in Mangas :
       readingHistory'[m] # readingHistory[m] =>
          /\ m = MidOf(variant, [Cur EXCEPT !.mangaDxId = mangaDxId'], addr')
          /\ readingHistory'[m].chapterId = currentMangaDxChapter'
          /\ readingHistory'[m].totalPages = totalPages']_vars

\* C37: in a Ready session every entry of loadedImages is loading, the placeholder
\* or the url of the same page of the chapter on display: no load started for a
\* page of another chapter has written its url there.
C37_NoForeignPage ==
  Ready =>
    \A i \in PageIdx :
      loadedImages[i] \in {None, Loading, Placeholder}
        \/ (i < Len(imageUrls) /\ loadedImages[i] = imageUrls[i + 1])

\* C38: the reader is not Ready while a fetchReaderData call started for the
\* address on display is still in flight.
C38_LoadingWhileInFlight ==
  Ready => \A r \in BagToSet(runs) : Stale(r)

C40_RedirectBeforeInitialization ==
  /\ redirecting => ~\E r \in BagToSet(runs) : r.pc # "first" /\ r.slug = addr.slug
  /\ Cardinality({i \in DOMAIN pushLog : pushLog[i].by = "redirect"}) <= 1
====
